---- MODULE Spec2Model ----
(***************************************************************************)
(* Video request handlers of the backend (controllers/video.controller.js) *)
(* as a state machine.  The shared state is the Video collection; every    *)
(* request runs in a slot and advances one step per awaited call (database *)
(* call or media-storage call), so handlers of different requests          *)
(* interleave exactly at their awaits.  A request field is drawn at the    *)
(* line where the handler reads it from req.                               *)
(***************************************************************************)
EXTENDS Integers, Sequences, FiniteSets

\* ------------------------------------------------------------------ bounds

\* Videos ever created (ObjectIds 1..MaxVideos are handed out in order).
MaxVideos == 1

\* ------------------------------------------------------- values and inputs

\* A string is a sequence of characters; a string field that was not sent
\* (undefined, which the handlers test with "!x") is the empty sequence.  An
\* optional object is a sequence of at most one record: <<>> is null/undefined.
NoString == <<>>
Null == <<>>
NoUser == ""

\* Concurrent requests in flight.
Reqs == {"r1", "r2"}

\* Authenticated identities (req.user._id).
Users == {"u1", "u2"}

\* req.params.videoId: a well-formed ObjectId of no record, and a missing one.
NoSuchId == 0
MissingId == -1

VideoIds == 1 .. MaxVideos

PublishTitles == {NoString, <<"a">>}
PublishDescriptions == {NoString, <<"b">>}
UpdateTitles == {NoString, <<"B">>}
UpdateDescriptions == {NoString, <<"c">>}
Queries == {NoString, <<"A">>, <<".">>}
OwnerFilters == {NoUser, "u1", "bad"}
SortFields == {"createdAt", "title"}
SortTypes == {"asc", "desc"}
Pages == {1, 2}
Limits == {1}

\* Local paths staged by the upload-intake middleware.
VideoPath == <<"p", "v">>
ThumbnailPath == <<"p", "t">>
NewThumbnailPath == <<"p", "u">>

\* req.files of a publish request: undefined (the request is not multipart),
\* or an object with, for each field that was sent, the array of its files; a
\* field that was not sent is undefined, written <<>>.
PublishFiles ==
    {Null} \cup
    {<<[videoFile |-> v, thumbnail |-> t]>> :
        v \in {Null, <<[path |-> VideoPath]>>},
        t \in {Null, <<[path |-> ThumbnailPath]>>}}

\* req.file of an update request.
UpdateFiles == {Null, <<[path |-> NewThumbnailPath]>>}

\* ------------------------------------------------------------ status codes

OK == 200
BadRequest == 400
Forbidden == 403
NotFound == 404
\* An error that is no ApiError (a TypeError, a DocumentNotFoundError).
InternalError == 500
\* A remote-storage failure raised by the media helper.
UploadError == 400

\* ------------------------------------------------------------------ strings

RECURSIVE SplitFrom(_, _, _, _)
\* s.split(sep): the pieces of s[i..] between separators, cur being the piece
\* read so far.
SplitFrom(s, sep, i, cur) ==
    IF i > Len(s) THEN <<cur>>
    ELSE IF s[i] = sep THEN <<cur>> \o SplitFrom(s, sep, i + 1, <<>>)
    ELSE SplitFrom(s, sep, i + 1, Append(cur, s[i]))

Split(s, sep) == SplitFrom(s, sep, 1, <<>>)

Pop(seq) == seq[Len(seq)]

\* Mutant of PublicId: the piece after the dot is taken.
PublicId_extension(url) == Split(Pop(Split(url, "/")), ".")[2]

\* url.split("/").pop().split(".")[0]
PublicId(url) == Split(Pop(Split(url, "/")), ".")[1]

ToLower(c) ==
    CASE c = "A" -> "a"
      [] c = "B" -> "b"
      [] c = "C" -> "c"
      [] OTHER -> c

\* One pattern character against one text character under $options: "i";
\* "." is the regular-expression wildcard.
CharMatches(p, c) == p = "." \/ ToLower(p) = ToLower(c)

\* {$regex: pattern, $options: "i"}: the pattern matches somewhere in text.
RegexMatch(pattern, text) ==
    \E i \in 0 .. (Len(text) - Len(pattern)) :
        \A k \in 1 .. Len(pattern) : CharMatches(pattern[k], text[i + k])

\* text contains q as a substring, letter case ignored.
ContainsIgnoreCase(text, q) ==
    \E i \in 0 .. (Len(text) - Len(q)) :
        \A k \in 1 .. Len(q) : ToLower(q[k]) = ToLower(text[i + k])

\* ------------------------------------------------------ media storage helper

\* The URL the media storage service gives the file staged at path.
UploadUrl(path) == <<"h", "/", path[Len(path)], ".", "x">>

\* uploadOnCloudinary(localFilePath): what the call can return.  Without a
\* path nothing is uploaded and the result is null; with one, the response
\* (holding the url), a response without a url, or null when the upload failed.
UploadResults(path) ==
    IF path = NoString THEN {Null}
    ELSE {<<[url |-> UploadUrl(path)]>>, <<[url |-> NoString]>>, Null}

\* deleteFromCloudinary(publicId): it returns the service's answer ("ok"),
\* returns a falsy value ("null"), or throws ("throw").
DeleteResults == {"ok", "null", "throw"}

\* ------------------------------------------------------------------- state

VARIABLES
    db,      \* the Video collection: db[id] is <<>> or <<the document>>
    nextId,  \* the next ObjectId Video.create hands out
    req,     \* req[r]: the request running in slot r, with its handler's locals
    toggles  \* history: toggles[id] is the number, modulo 2, of toggle-publish
             \* requests on id that were answered 200

vars == <<db, nextId, req, toggles>>

\* A slot with no request.
Blank ==
    [op |-> "idle", pc |-> "idle", user |-> NoUser, videoId |-> MissingId,
     title |-> NoString, description |-> NoString, files |-> Null,
     query |-> NoString, userId |-> NoUser,
     sortBy |-> "createdAt", sortType |-> "asc",
     page |-> 1, limit |-> 1,
     video |-> Null, videoFile |-> Null, thumbnail |-> Null,
     deletedVideoFile |-> "", deletedThumbnail |-> "",
     calls |-> <<>>, status |-> 0, data |-> Null, docs |-> <<>>]

Init ==
    /\ db = [id \in VideoIds |-> Null]
    /\ nextId = 1
    /\ req = [r \in Reqs |-> Blank]
    /\ toggles = [id \in VideoIds |-> 0]

\* throw new ApiError(code, ...), or any other error, rendered by asyncHandler.
Fail(s, code) == [s EXCEPT !.pc = "done", !.status = code]

\* res.status(code).json(new ApiResponse(..., data, ...))
Reply(s, code, data) == [s EXCEPT !.pc = "done", !.status = code, !.data = data]

\* The helper call the handler makes, in order.
Call(s, fn, arg) == [s EXCEPT !.calls = Append(@, [fn |-> fn, arg |-> arg])]

\* Video.findById(videoId)
FindById(id) == IF id \in VideoIds THEN db[id] ELSE Null

\* A handler's last continuation sends the response and returns in one go:
\* the slot of an answered request is freed (Finish) before any other
\* continuation runs.
Ready == \A o \in Reqs : req[o].pc # "done"

\* The identifiers a request can carry: those of documents created so far,
\* one of no document, and none.
RequestIds == (1 .. (nextId - 1)) \cup {NoSuchId, MissingId}

\* Mutant of IsOwner: the ownership test is left out.
IsOwner_anyone(video, user) == TRUE

\* video.owner.toString() === req.user._id.toString()
IsOwner(video, user) == video.owner = user

\* ------------------------------------------------------------ getAllVideos

isValidObjectId(id) == id # "bad"

\* The $match stage.
Matches(doc, query, userId) ==
    /\ doc.isPublished = TRUE
    /\ query # NoString =>
           RegexMatch(query, doc.title) \/ RegexMatch(query, doc.description)
    /\ (userId # NoUser /\ isValidObjectId(userId)) => doc.owner = userId

\* The code unit of a character, by which the database orders strings.
CharCode(c) ==
    CASE c = "." -> 46
      [] c = "A" -> 65
      [] c = "B" -> 66
      [] c = "C" -> 67
      [] c = "a" -> 97
      [] c = "b" -> 98
      [] c = "c" -> 99

RECURSIVE StringLess(_, _)
\* s sorts before t in the database's binary string order.
StringLess(s, t) ==
    IF t = <<>> THEN FALSE
    ELSE IF s = <<>> THEN TRUE
    ELSE IF s[1] # t[1] THEN CharCode(s[1]) < CharCode(t[1])
    ELSE StringLess(Tail(s), Tail(t))

\* sort[sortBy] = sortType === "asc" ? 1 : -1: document i comes before
\* document j.  createdAt follows the order of creation; documents with equal
\* keys keep their stored order.
SortsBefore(i, j, sortBy, sortType) ==
    LET a == db[i][1]
        b == db[j][1]
        less == IF sortBy = "title" THEN StringLess(a.title, b.title)
                ELSE i < j
        greater == IF sortBy = "title" THEN StringLess(b.title, a.title)
                   ELSE j < i
    IN IF ~less /\ ~greater THEN i < j
       ELSE IF sortType = "asc" THEN less ELSE greater

RECURSIVE SortedDocs(_, _, _)
\* The $sort stage.
SortedDocs(ids, sortBy, sortType) ==
    IF ids = {} THEN <<>>
    ELSE LET first == CHOOSE i \in ids :
                          \A j \in ids \ {i} : SortsBefore(i, j, sortBy, sortType)
         IN <<db[first][1]>> \o SortedDocs(ids \ {first}, sortBy, sortType)

\* aggregatePaginate(..., {page, limit}).docs
Paginate(docs, page, limit) ==
    SubSeq(docs, (page - 1) * limit + 1,
           IF page * limit < Len(docs) THEN page * limit ELSE Len(docs))

getAllVideos(r) ==
    /\ Ready /\ req[r].pc = "idle"
    /\ \E query \in Queries, userId \in OwnerFilters, sortBy \in SortFields,
          sortType \in SortTypes, page \in Pages, limit \in Limits :
         LET s == [Blank EXCEPT !.op = "list", !.query = query,
                                !.userId = userId, !.sortBy = sortBy,
                                !.sortType = sortType,
                                !.page = page, !.limit = limit]
             matched == {id \in VideoIds :
                            db[id] # Null /\ Matches(db[id][1], query, userId)}
             docs == Paginate(SortedDocs(matched, sortBy, sortType), page,
                             limit)
         IN req' = [req EXCEPT ![r] = [Fail(s, OK) EXCEPT !.docs = docs]]
    /\ UNCHANGED <<db, nextId, toggles>>

\* ----------------------------------------------------------- publishAVideo

\* req.files?.field[0]?.path throws a TypeError when req.files is an object
\* without the field (undefined[0]).
PathThrows(files, field) == files # Null /\ files[1][field] = Null

PathOf(files, field) ==
    IF files = Null THEN NoString ELSE files[1][field][1].path

\* Publish requests that passed validation and have not created their document.
PendingPublishes ==
    Cardinality({r \in Reqs : req[r].op = "publish" /\ req[r].pc # "done"})

\* Lines 85-102: validation, then the first upload is issued.
publishAVideo_validate(r) ==
    /\ Ready /\ req[r].pc = "idle"
    /\ \E user \in Users, title \in PublishTitles,
          description \in PublishDescriptions :
         LET s == [Blank EXCEPT !.op = "publish", !.user = user,
                                !.title = title, !.description = description]
         IN IF title = NoString \/ description = NoString
            THEN req' = [req EXCEPT ![r] = Fail(s, BadRequest)]
            ELSE \E files \in PublishFiles :
                   LET t == [s EXCEPT !.files = files]
                   IN IF PathThrows(files, "videoFile")
                         \/ PathThrows(files, "thumbnail")
                      THEN req' = [req EXCEPT ![r] = Fail(t, InternalError)]
                      ELSE IF PathOf(files, "videoFile") = NoString
                              \/ PathOf(files, "thumbnail") = NoString
                      THEN req' = [req EXCEPT ![r] = Fail(t, BadRequest)]
                      ELSE /\ nextId + PendingPublishes <= MaxVideos
                           /\ req' = [req EXCEPT ![r] = [t EXCEPT !.pc = "uploadVideo"]]
    /\ UNCHANGED <<db, nextId, toggles>>

\* Line 102 returns; line 103 issues the second upload.
publishAVideo_uploadVideo(r) ==
    /\ Ready /\ req[r].op = "publish" /\ req[r].pc = "uploadVideo"
    /\ \E res \in UploadResults(PathOf(req[r].files, "videoFile")) :
         req' = [req EXCEPT ![r] =
                   [Call(@, "upload", PathOf(req[r].files, "videoFile"))
                      EXCEPT !.videoFile = res, !.pc = "uploadThumbnail"]]
    /\ UNCHANGED <<db, nextId, toggles>>

\* Line 103 returns; lines 105-113 check both results and issue Video.create.
publishAVideo_uploadThumbnail(r) ==
    /\ Ready /\ req[r].op = "publish" /\ req[r].pc = "uploadThumbnail"
    /\ \E res \in UploadResults(PathOf(req[r].files, "thumbnail")) :
         LET s == [Call(req[r], "upload", PathOf(req[r].files, "thumbnail"))
                     EXCEPT !.thumbnail = res]
             noUrl(x) == x = Null \/ x[1].url = NoString
         IN IF noUrl(s.videoFile) \/ noUrl(s.thumbnail)
            THEN req' = [req EXCEPT ![r] = Fail(s, BadRequest)]
            ELSE req' = [req EXCEPT ![r] = [s EXCEPT !.pc = "create"]]
    /\ UNCHANGED <<db, nextId, toggles>>

\* Lines 113-126: Video.create and the response.
publishAVideo_create(r) ==
    /\ Ready /\ req[r].op = "publish" /\ req[r].pc = "create"
    /\ LET s == req[r]
           video == [id |-> nextId, title |-> s.title,
                     description |-> s.description,
                     videoFile |-> s.videoFile[1].url,
                     thumbnail |-> s.thumbnail[1].url,
                     isPublished |-> TRUE, owner |-> s.user]
       IN /\ db' = [db EXCEPT ![nextId] = <<video>>]
          /\ nextId' = nextId + 1
          /\ req' = [req EXCEPT ![r] = Reply(s, OK, <<video>>)]
    /\ UNCHANGED toggles

publishAVideo(r) ==
    \/ publishAVideo_validate(r)
    \/ publishAVideo_uploadVideo(r)
    \/ publishAVideo_uploadThumbnail(r)
    \/ publishAVideo_create(r)

\* ------------------------------------------------------------ getVideoById

getVideoById(r) ==
    /\ Ready /\ req[r].pc = "idle"
    /\ \E videoId \in RequestIds :
         LET s == [Blank EXCEPT !.op = "get", !.videoId = videoId]
             video == FindById(videoId)
         IN req' = [req EXCEPT ![r] =
                      IF videoId = MissingId THEN Fail(s, BadRequest)
                      ELSE IF video = Null THEN Fail(s, NotFound)
                      ELSE Reply(s, OK, video)]
    /\ UNCHANGED <<db, nextId, toggles>>

\* ------------------------------------------------------------- updateVideo

\* req.file?.path
FilePath(file) == IF file = Null THEN NoString ELSE file[1].path

\* Lines 152-175: lookup, ownership, the fields, then the upload is issued.
updateVideo_find(r) ==
    /\ Ready /\ req[r].pc = "idle"
    /\ \E user \in Users, videoId \in RequestIds :
         LET s == [Blank EXCEPT !.op = "update", !.user = user,
                                !.videoId = videoId]
             video == FindById(videoId)
         IN IF videoId = MissingId
            THEN req' = [req EXCEPT ![r] = Fail(s, BadRequest)]
            ELSE IF video = Null
            THEN req' = [req EXCEPT ![r] = Fail(s, NotFound)]
            ELSE IF ~IsOwner(video[1], user)
            THEN req' = [req EXCEPT ![r] = Fail([s EXCEPT !.video = video], Forbidden)]
            ELSE \E title \in UpdateTitles, description \in UpdateDescriptions,
                    file \in UpdateFiles :
                   LET t == [s EXCEPT !.video = video, !.title = title,
                                      !.description = description,
                                      !.files = file]
                   IN IF title = NoString /\ description = NoString
                         /\ FilePath(file) = NoString
                      THEN req' = [req EXCEPT ![r] = Fail(t, BadRequest)]
                      ELSE req' = [req EXCEPT ![r] =
                                     [t EXCEPT !.pc = "uploadThumbnail"]]
    /\ UNCHANGED <<db, nextId, toggles>>

\* Line 175 returns; lines 177-184: thumbnail.url is read (a TypeError on
\* null), then the old thumbnail's deletion is issued.
updateVideo_uploadThumbnail(r) ==
    /\ Ready /\ req[r].op = "update" /\ req[r].pc = "uploadThumbnail"
    /\ \E res \in UploadResults(FilePath(req[r].files)) :
         LET s == [Call(req[r], "upload", FilePath(req[r].files))
                     EXCEPT !.thumbnail = res]
         IN req' = [req EXCEPT ![r] =
                      IF res = Null THEN Fail(s, InternalError)
                      ELSE IF res[1].url = NoString THEN Fail(s, BadRequest)
                      ELSE IF s.video[1].thumbnail # NoString
                      THEN [s EXCEPT !.pc = "deleteOld"]
                      ELSE [s EXCEPT !.pc = "write"]]
    /\ UNCHANGED <<db, nextId, toggles>>

\* Lines 183-190: the old thumbnail's deletion returns or throws.
updateVideo_deleteOld(r) ==
    /\ Ready /\ req[r].op = "update" /\ req[r].pc = "deleteOld"
    /\ \E res \in DeleteResults :
         LET s == Call(req[r], "destroy", PublicId(req[r].video[1].thumbnail))
         IN req' = [req EXCEPT ![r] =
                      IF res = "throw" THEN Fail(s, BadRequest)
                      ELSE [s EXCEPT !.pc = "write"]]
    /\ UNCHANGED <<db, nextId, toggles>>

\* Mutant of SetFields: the new URL is written to videoFile as well.
SetFields_videoFile(doc, title, description, thumbnail) ==
    [doc EXCEPT !.title = IF title = NoString THEN @ ELSE title,
                !.description = IF description = NoString THEN @ ELSE description,
                !.thumbnail = thumbnail, !.videoFile = thumbnail]

\* $set: {title, description, thumbnail: thumbnail.url}; a field that is
\* undefined is left out of the update.
SetFields(doc, title, description, thumbnail) ==
    [doc EXCEPT !.title = IF title = NoString THEN @ ELSE title,
                !.description = IF description = NoString THEN @ ELSE description,
                !.thumbnail = thumbnail]

\* Lines 190-204: Video.findByIdAndUpdate(video._id, ..., {new: true}), which
\* gives null when the document is gone, and the response.
updateVideo_write(r) ==
    /\ Ready /\ req[r].op = "update" /\ req[r].pc = "write"
    /\ LET s == req[r]
           id == s.video[1].id
           updatedVideo ==
               IF db[id] = Null THEN Null
               ELSE <<SetFields(db[id][1], s.title, s.description,
                                s.thumbnail[1].url)>>
       IN /\ db' = [db EXCEPT ![id] = updatedVideo]
          /\ req' = [req EXCEPT ![r] = Reply(s, OK, updatedVideo)]
    /\ UNCHANGED <<nextId, toggles>>

updateVideo(r) ==
    \/ updateVideo_find(r)
    \/ updateVideo_uploadThumbnail(r)
    \/ updateVideo_deleteOld(r)
    \/ updateVideo_write(r)

\* ------------------------------------------------------------- deleteVideo

\* Lines 208-227: lookup, ownership, then the video file's deletion is issued.
deleteVideo_find(r) ==
    /\ Ready /\ req[r].pc = "idle"
    /\ \E user \in Users, videoId \in RequestIds :
         LET s == [Blank EXCEPT !.op = "delete", !.user = user,
                                !.videoId = videoId]
             video == FindById(videoId)
         IN req' = [req EXCEPT ![r] =
                      IF videoId = MissingId THEN Fail(s, BadRequest)
                      ELSE IF video = Null THEN Fail(s, NotFound)
                      ELSE IF ~IsOwner(video[1], user)
                      THEN Fail([s EXCEPT !.video = video], Forbidden)
                      ELSE [s EXCEPT !.video = video, !.pc = "deleteVideoFile"]]
    /\ UNCHANGED <<db, nextId, toggles>>

\* Line 227 returns; line 228 issues the thumbnail's deletion.
deleteVideo_deleteVideoFile(r) ==
    /\ Ready /\ req[r].op = "delete" /\ req[r].pc = "deleteVideoFile"
    /\ \E res \in DeleteResults :
         LET s == Call(req[r], "destroy", PublicId(req[r].video[1].videoFile))
         IN req' = [req EXCEPT ![r] =
                      IF res = "throw"
                      THEN Fail([s EXCEPT !.deletedVideoFile = res], UploadError)
                      ELSE [s EXCEPT !.deletedVideoFile = res,
                                     !.pc = "deleteThumbnail"]]
    /\ UNCHANGED <<db, nextId, toggles>>

\* Mutant of RemoteDeletionFailed: only the thumbnail's answer is checked.
RemoteDeletionFailed_thumbnailOnly(s) == s.deletedThumbnail # "ok"

\* Lines 230-236: either answer is falsy.
RemoteDeletionFailed(s) ==
    s.deletedVideoFile # "ok" \/ s.deletedThumbnail # "ok"

\* Line 228 returns; lines 230-238 check both answers and issue the delete.
deleteVideo_deleteThumbnail(r) ==
    /\ Ready /\ req[r].op = "delete" /\ req[r].pc = "deleteThumbnail"
    /\ \E res \in DeleteResults :
         LET s == [Call(req[r], "destroy",
                        PublicId(req[r].video[1].thumbnail))
                     EXCEPT !.deletedThumbnail = res]
         IN req' = [req EXCEPT ![r] =
                      IF res = "throw" THEN Fail(s, UploadError)
                      ELSE IF RemoteDeletionFailed(s) THEN Fail(s, BadRequest)
                      ELSE [s EXCEPT !.pc = "remove"]]
    /\ UNCHANGED <<db, nextId, toggles>>

\* Lines 238-242: Video.findByIdAndDelete(video._id) and the response.
deleteVideo_remove(r) ==
    /\ Ready /\ req[r].op = "delete" /\ req[r].pc = "remove"
    /\ db' = [db EXCEPT ![req[r].video[1].id] = Null]
    /\ req' = [req EXCEPT ![r] = Reply(req[r], OK, Null)]
    /\ UNCHANGED <<nextId, toggles>>

deleteVideo(r) ==
    \/ deleteVideo_find(r)
    \/ deleteVideo_deleteVideoFile(r)
    \/ deleteVideo_deleteThumbnail(r)
    \/ deleteVideo_remove(r)

\* ----------------------------------------------------- togglePublishStatus

\* Mutant of Flip: the flag is set instead of negated.
Flip_publish(doc) == [doc EXCEPT !.isPublished = TRUE]

\* video.isPublished = !video.isPublished, on the handler's copy.
Flip(doc) == [doc EXCEPT !.isPublished = ~@]

\* Lines 246-263: lookup, ownership, the flip, then save is issued.
togglePublishStatus_find(r) ==
    /\ Ready /\ req[r].pc = "idle"
    /\ \E user \in Users, videoId \in RequestIds :
         LET s == [Blank EXCEPT !.op = "toggle", !.user = user,
                                !.videoId = videoId]
             video == FindById(videoId)
         IN req' = [req EXCEPT ![r] =
                      IF videoId = MissingId THEN Fail(s, BadRequest)
                      ELSE IF video = Null THEN Fail(s, NotFound)
                      ELSE IF ~IsOwner(video[1], user)
                      THEN Fail([s EXCEPT !.video = video], Forbidden)
                      ELSE [s EXCEPT !.video = <<Flip(video[1])>>,
                                     !.pc = "save"]]
    /\ UNCHANGED <<db, nextId, toggles>>

\* video.save() writes the modified path, isPublished, to the stored document.
Save(stored, doc) == [stored EXCEPT !.isPublished = doc.isPublished]

\* Lines 263-271: save, which rejects when the document is gone, and the
\* response, which carries the handler's copy.
togglePublishStatus_save(r) ==
    /\ Ready /\ req[r].op = "toggle" /\ req[r].pc = "save"
    /\ LET s == req[r]
           id == s.video[1].id
       IN IF db[id] = Null
          THEN /\ req' = [req EXCEPT ![r] = Fail(s, InternalError)]
               /\ UNCHANGED <<db, toggles>>
          ELSE /\ db' = [db EXCEPT ![id] = <<Save(db[id][1], s.video[1])>>]
               /\ req' = [req EXCEPT ![r] = Reply(s, OK, s.video)]
               /\ toggles' = [toggles EXCEPT ![id] = 1 - @]
    /\ UNCHANGED nextId

togglePublishStatus(r) ==
    \/ togglePublishStatus_find(r)
    \/ togglePublishStatus_save(r)

\* ------------------------------------------------------------ the service

\* The response has been sent; the slot takes the next request.
Finish(r) ==
    /\ req[r].pc = "done"
    /\ req' = [req EXCEPT ![r] = Blank]
    /\ UNCHANGED <<db, nextId, toggles>>

Handle(r) ==
    \/ getAllVideos(r)
    \/ publishAVideo(r)
    \/ getVideoById(r)
    \/ updateVideo(r)
    \/ deleteVideo(r)
    \/ togglePublishStatus(r)
    \/ Finish(r)

Next == \E r \in Reqs : Handle(r)

Spec == Init /\ [][Next]_vars

\* Requests served one after the other: a slot steps only while no other
\* request is between its first step and its response.
Alone(r) == \A o \in Reqs \ {r} : req[o].pc = "idle"

NextSeq ==
    \E r \in Reqs :
        \/ Alone(r) /\ getAllVideos(r)
        \/ Alone(r) /\ publishAVideo(r)
        \/ Alone(r) /\ getVideoById(r)
        \/ Alone(r) /\ updateVideo(r)
        \/ Alone(r) /\ deleteVideo(r)
        \/ Alone(r) /\ togglePublishStatus(r)
        \/ Alone(r) /\ Finish(r)

SpecSeq == Init /\ [][NextSeq]_vars

\* ------------------------------------------------------------------ claims

Mutating == {"update", "delete", "toggle"}

\* The document a request's lookup found was not the requester's.
NotOwner(s) ==
    s.op \in Mutating /\ s.video # Null /\ s.video[1].owner # s.user

\* The slot that takes the step changes the stored document id.
Changes(r, id) == req'[r] # req[r] /\ db'[id] # db[id]

\* C1: an update, delete or toggle-publish request on an existing video by a
\* requester who is not its owner is answered 403 without any call to the
\* media storage helper, and no step of such a request changes the document.
C1_NonOwnerRejected ==
    /\ [](\A r \in Reqs :
            NotOwner(req[r]) =>
                /\ req[r].pc = "done"
                /\ req[r].status = Forbidden
                /\ req[r].calls = <<>>)
    /\ [][\A r \in Reqs, id \in VideoIds :
            (Changes(r, id) /\ db[id] # Null /\ req[r].op \in Mutating)
                => req[r].user = db[id][1].owner]_vars

C1_Witness ==
    \E r \in Reqs :
        /\ NotOwner(req[r])
        /\ req[r].status = Forbidden
        /\ db[req[r].videoId] = req[r].video

\* A publish request lacks title, description, the video file or the thumbnail.
PublishIncomplete(s) ==
    \/ s.title = NoString
    \/ s.description = NoString
    \/ s.files = Null
    \/ s.files[1].videoFile = Null
    \/ s.files[1].thumbnail = Null

\* C2: a publish request in which title, description, the video file or the
\* thumbnail is missing is answered 400, and nothing is uploaded.
C2_IncompletePublishIs400 ==
    \A r \in Reqs :
        (req[r].op = "publish" /\ req[r].pc = "done"
         /\ PublishIncomplete(req[r]))
            => req[r].status = BadRequest /\ req[r].calls = <<>>

\* C3: a get-by-id, update, delete or toggle-publish request whose identifier
\* refers to no document when the handler's database call runs (never created,
\* or deleted, also while the request was in progress) is answered 404.
C3_MissingIs404 ==
    [][\A r \in Reqs :
          (/\ req[r].pc \in {"idle", "write", "remove", "save"}
           /\ req'[r].pc = "done"
           /\ req'[r].op \in Mutating \cup {"get"}
           /\ req'[r].videoId # MissingId
           /\ FindById(req'[r].videoId) = Null)
              => req'[r].status = NotFound]_vars

\* C4: an update by the owner that supplies only a title (no thumbnail file)
\* is answered 200 with the title changed and the description and thumbnail
\* URL as they were.
C4_TitleOnlyUpdateSucceeds ==
    \A r \in Reqs :
        (/\ req[r].op = "update" /\ req[r].pc = "done"
         /\ req[r].video # Null /\ req[r].video[1].owner = req[r].user
         /\ req[r].title # NoString /\ req[r].files = Null
         /\ db[req[r].videoId] # Null)
            => /\ req[r].status = OK
               /\ req[r].data # Null
               /\ req[r].data[1].title = req[r].title
               /\ req[r].data[1].thumbnail = req[r].video[1].thumbnail

\* The remote-deletion call for the object the URL names: the object's
\* identifier is the character after "h/".
Destroy(url) == [fn |-> "destroy", arg |-> <<url[3]>>]

\* C5: a delete request answered 200 has removed the document and has issued
\* exactly one remote deletion for the video file and exactly one for the
\* thumbnail.
C5_DeleteRemovesAll ==
    \A r \in Reqs :
        (req[r].op = "delete" /\ req[r].status = OK)
            => /\ db[req[r].videoId] = Null
               /\ req[r].calls = <<Destroy(req[r].video[1].videoFile),
                                   Destroy(req[r].video[1].thumbnail)>>

C5_Witness ==
    \E r \in Reqs :
        /\ req[r].op = "delete" /\ req[r].status = OK
        /\ Len(req[r].calls) = 2
        /\ req[r].video[1].thumbnail = UploadUrl(NewThumbnailPath)

\* C6: with requests served one after the other, the publish flag of a video
\* is the one it was created with (true) after an even number of toggles
\* answered 200 and its negation after an odd number: each toggle negates the
\* stored flag and two toggles restore it.
C6_ToggleTwiceRestores ==
    \A id \in VideoIds :
        db[id] # Null => (db[id][1].isPublished <=> toggles[id] = 0)

C6_Witness ==
    \E r \in Reqs :
        /\ req[r].op = "toggle" /\ req[r].status = OK
        /\ toggles[req[r].videoId] = 0
        /\ db[req[r].videoId] # Null
        /\ db[req[r].videoId][1].isPublished

\* C7: every video of a list result is published and, when a query was given,
\* holds the query in its title or description as a case-insensitive substring.
C7_ListIsPublishedSubstringMatch ==
    \A r \in Reqs :
        (req[r].op = "list" /\ req[r].pc = "done")
            => \A i \in 1 .. Len(req[r].docs) :
                  /\ req[r].docs[i].isPublished
                  /\ req[r].query # NoString =>
                        \/ ContainsIgnoreCase(req[r].docs[i].title, req[r].query)
                        \/ ContainsIgnoreCase(req[r].docs[i].description,
                                              req[r].query)

\* C8: every toggle-publish request answered 200 takes effect, whatever the
\* interleaving: its save leaves the stored flag the negation of what it was.
C8_EveryToggleTakesEffect ==
    [][\A r \in Reqs :
          (req[r].op = "toggle" /\ req[r].pc = "save" /\ req'[r].status = OK)
              => db'[req[r].videoId][1].isPublished
                     = ~db[req[r].videoId][1].isPublished]_vars

\* C9: a delete request removes the document only after both remote deletions
\* have reported success; when either fails the request is answered 400 and
\* does not remove the document.
C9_DeleteAfterRemoteDeletions ==
    /\ [](\A r \in Reqs :
            req[r].op = "delete" =>
                /\ (req[r].pc = "remove" \/ req[r].status = OK) =>
                       /\ req[r].deletedVideoFile = "ok"
                       /\ req[r].deletedThumbnail = "ok"
                /\ (/\ req[r].pc = "done"
                    /\ \/ req[r].deletedVideoFile \in {"null", "throw"}
                       \/ req[r].deletedThumbnail \in {"null", "throw"})
                       => req[r].status = BadRequest)
    /\ [][\A id \in VideoIds :
            (db[id] # Null /\ db'[id] = Null) =>
                \E r \in Reqs :
                    /\ req[r].op = "delete" /\ req[r].pc = "remove"
                    /\ req'[r].status = OK
                    /\ req[r].videoId = id
                    /\ req[r].deletedVideoFile = "ok"
                    /\ req[r].deletedThumbnail = "ok"]_vars

C9_Witness ==
    \E r \in Reqs :
        /\ req[r].op = "delete" /\ req[r].pc = "done"
        /\ req[r].deletedVideoFile = "null"
        /\ req[r].deletedThumbnail = "ok"
        /\ req[r].status = BadRequest
        /\ db[req[r].videoId] # Null

\* C10: publish stores the requester as owner, and no step changes the owner
\* or the video-file URL of a stored document.
C10_OwnerAndVideoFileFixed ==
    /\ [](\A r \in Reqs :
            (req[r].op = "publish" /\ req[r].status = OK)
                => req[r].data[1].owner = req[r].user)
    /\ [][\A id \in VideoIds :
            /\ (db[id] = Null /\ db'[id] # Null) =>
                   \E r \in Reqs :
                       /\ req[r].op = "publish" /\ req[r].pc = "create"
                       /\ req'[r].pc = "done"
                       /\ db'[id][1].owner = req[r].user
                       /\ db'[id][1].videoFile = UploadUrl(VideoPath)
            /\ (db[id] # Null /\ db'[id] # Null) =>
                   /\ db'[id][1].owner = db[id][1].owner
                   /\ db'[id][1].videoFile = db[id][1].videoFile]_vars

C10_Witness ==
    \E r \in Reqs :
        /\ req[r].op = "update" /\ req[r].status = OK
        /\ req[r].data # Null
        /\ req[r].data[1].thumbnail # req[r].video[1].thumbnail
        /\ req[r].data[1].videoFile = req[r].video[1].videoFile
        /\ req[r].data[1].owner = req[r].user

====
